---- MODULE Spec2Model ----
(***************************************************************************)
(* Session history store of the RAG chatbot (src/chat_history.py) and the  *)
(* application event handlers that drive it (src/app.py).                  *)
(*                                                                         *)
(* The storage directory is a function from file stem (the session id in   *)
(* "<session_id>.json") to the content of that file.  Text is a sequence   *)
(* of one-character strings, so that strip(), len() and slicing are        *)
(* computed and not assumed.  A timestamp is the reading of the wall clock *)
(* at the moment of the call; isoformat() strings are compared as the      *)
(* readings they denote.  The timestamp the handlers put into a message is *)
(* read by nothing in the repository; a message is its type, content and   *)
(* author.                                                                 *)
(*                                                                         *)
(* Specifications: Spec (the store, no faults), SpecEnv (failing unlink,   *)
(* corrupt and foreign files), SpecIO (failing writes, storage directory   *)
(* removed, restarts), SpecRetention (restarts that change max_history),   *)
(* SpecConc (two processes inside save_chat_session), SpecTitle (title     *)
(* derivation) and SpecApp (the handlers of src/app.py).                   *)
(***************************************************************************)
EXTENDS Integers, Sequences, FiniteSets, TLC

VARIABLES
    files,        \* storage_dir: file stem -> file content
    clock,        \* the reading datetime.now() returns
    max_history,  \* ChatHistoryManager.max_history
    ret,          \* what the last store operation was given and returned
    enabled,      \* ENABLE_CHAT_HISTORY as get_chat_history_enabled() reads it
    conns,        \* cl.user_session of every connection
    issued,       \* session ids uuid4() has handed out
    root,         \* whether the directory storage_dir names exists
    savers        \* the save_chat_session call each process is inside of

vars == <<files, clock, max_history, ret, enabled, conns, issued, root, savers>>

storeVars == <<files, clock, max_history, ret, root>>
appVars == <<enabled, conns, issued, savers>>

----------------------------------------------------------------------------
(* Bounds *)

MaxClock == 2
MaxHistoryBound == 3
MaxTitleMessages == 2
MaxMessages == 3

(* Program constants *)

TitleLimit == 50
TitleKeep == 47

SessionIds == {"s1", "s2", "s3"}

Conns == {"c1"}

\* the files the failing file system is exercised on
EnvIds == {"s1", "s2"}

----------------------------------------------------------------------------
(* Text *)

Whitespace == {" ", "\t", "\n"}

RECURSIVE lstrip(_)
lstrip(s) ==
    IF s # <<>> /\ Head(s) \in Whitespace THEN lstrip(Tail(s)) ELSE s

RECURSIVE rstrip(_)
rstrip(s) ==
    IF s # <<>> /\ s[Len(s)] \in Whitespace
    THEN rstrip(SubSeq(s, 1, Len(s) - 1))
    ELSE s

strip(s) == rstrip(lstrip(s))

Rep(c, n) == [i \in 1..n |-> c]

Ellipsis == <<".", ".", ".">>

DigitChars == <<"0", "1", "2", "3", "4", "5", "6", "7", "8", "9">>

RECURSIVE Decimal(_)
Decimal(n) ==
    IF n < 10 THEN <<DigitChars[n + 1]>>
    ELSE Decimal(n \div 10) \o <<DigitChars[(n % 10) + 1]>>

\* f"Chat {datetime.now().strftime('%Y-%m-%d %H:%M')}"
strftime(t) == <<"C", "h", "a", "t", " ">> \o Decimal(t)

----------------------------------------------------------------------------
(* Messages *)

UserMessage(c) == [type |-> "user_message", content |-> c, author |-> "User"]
AssistantMessage(c) ==
    [type |-> "assistant_message", content |-> c, author |-> "Assistant"]

IsUser(m) == m.type = "user_message"

user_messages(messages) == SelectSeq(messages, IsUser)

\* len([m for m in messages if m.get("type") == "user_message"])
CountUser(messages) == Len(user_messages(messages))

\* the text is cut without being stripped first
TitleFromContent_unstripped(c) ==
    IF Len(c) > TitleLimit THEN SubSeq(c, 1, TitleKeep) \o Ellipsis ELSE c

TitleFromContent(c) ==
    IF Len(strip(c)) > TitleLimit
    THEN SubSeq(strip(c), 1, TitleKeep) \o Ellipsis
    ELSE strip(c)

RECURSIVE generate_title(_, _)
generate_title(messages, now) ==
    IF messages = <<>> THEN strftime(now)
    ELSE IF IsUser(Head(messages)) /\ Head(messages).content # <<>>
         THEN TitleFromContent(Head(messages).content)
         ELSE generate_title(Tail(messages), now)

----------------------------------------------------------------------------
(* Files *)

Absent == [kind |-> "absent"]
Malformed == [kind |-> "malformed"]      \* text that json.load rejects
NoKeys == [kind |-> "nokeys"]            \* a JSON object without "session_id"
Undecodable == [kind |-> "undecodable"]  \* bytes that are not UTF-8

NoTitle == <<>>

session_data(session_id, messages, title, now) ==
    [kind |-> "record",
     session_id |-> session_id,
     title |-> IF title = NoTitle THEN generate_title(messages, now) ELSE title,
     timestamp |-> now,
     messages |-> messages,
     message_count |-> CountUser(messages)]

Exists(fs, id) == fs[id].kind # "absent"

Present(fs) == {i \in SessionIds : Exists(fs, i)}

\* json.load succeeds and every key the summary reads is there
Readable(fs) == {i \in SessionIds : fs[i].kind = "record"}

\* a file whose read raises something other than JSONDecodeError or IOError
ListRaises(fs) == \E i \in SessionIds : fs[i].kind \in {"nokeys", "undecodable"}

Summary(f) ==
    [session_id |-> f.session_id, title |-> f.title,
     timestamp |-> f.timestamp, message_count |-> f.message_count]

\* load_chat_session: None is "not_found"; an uncaught exception is "raised"
load_chat_session(fs, id) ==
    CASE fs[id].kind = "absent" -> [result |-> "not_found"]
      [] fs[id].kind = "malformed" -> [result |-> "not_found"]
      [] fs[id].kind = "undecodable" -> [result |-> "raised"]
      [] fs[id].kind = "nokeys" -> [result |-> "object"]
      [] OTHER -> [result |-> "session", data |-> fs[id]]

\* the orders in which storage_dir.glob("*.json") may yield the files
GlobOrders(fs) ==
    {o \in [1..Cardinality(Present(fs)) -> Present(fs)] :
        \A i, j \in DOMAIN o : i # j => o[i] # o[j]}

\* list.sort(key=timestamp, reverse=True) is stable: x goes after every
\* element whose timestamp is not smaller
RECURSIVE InsertDesc(_, _)
InsertDesc(x, sorted) ==
    IF sorted = <<>> THEN <<x>>
    ELSE IF Head(sorted).timestamp >= x.timestamp
         THEN <<Head(sorted)>> \o InsertDesc(x, Tail(sorted))
         ELSE <<x>> \o sorted

RECURSIVE SortDesc(_, _)
SortDesc(done, todo) ==
    IF todo = <<>> THEN done
    ELSE SortDesc(InsertDesc(Head(todo), done), Tail(todo))

RECURSIVE Summaries(_, _)
Summaries(fs, order) ==
    IF order = <<>> THEN <<>>
    ELSE IF fs[Head(order)].kind = "record"
         THEN <<Summary(fs[Head(order)])>> \o Summaries(fs, Tail(order))
         ELSE Summaries(fs, Tail(order))

\* the summaries are returned in the order glob yields, unsorted
get_chat_history_unsorted(fs, order) == Summaries(fs, order)

\* get_chat_history, given the order glob yields (when no read raises)
get_chat_history(fs, order) == SortDesc(<<>>, Summaries(fs, order))

\* sessions[self.max_history:]
Slice(s, n) == IF Len(s) > n THEN SubSeq(s, n + 1, Len(s)) ELSE <<>>

Ids(s) == [i \in DOMAIN s |-> s[i].session_id]

Range(s) == {s[i] : i \in DOMAIN s}

\* delete_chat_session on every id of victims; the unlink of those in
\* failing raises OSError, which is caught
Unlink(fs, victims, failing) ==
    [i \in SessionIds |-> IF i \in victims \ failing THEN Absent ELSE fs[i]]

\* one session more than max_history is kept: sessions[max_history + 1:]
cleanup_victims_late(fs, order, n) ==
    IF Len(get_chat_history(fs, order)) > n
    THEN Ids(Slice(get_chat_history(fs, order), n + 1))
    ELSE <<>>

\* the session ids _cleanup_old_sessions deletes, in the order it does
cleanup_victims(fs, order, n) ==
    IF Len(get_chat_history(fs, order)) > n
    THEN Ids(Slice(get_chat_history(fs, order), n))
    ELSE <<>>

----------------------------------------------------------------------------
(* cl.user_session *)

NoSession == "none"

\* exchanged is not a key of cl.user_session: it is what has passed between
\* the user and the assistant on a connection on_chat_start has set up while
\* the history is enabled, every message that came in and every assistant
\* response cl.Message.send() has delivered, in the order they occurred
Closed ==
    [open |-> FALSE, query_engine |-> FALSE, session_id |-> NoSession,
     messages |-> <<>>, pc |-> "idle", exchanged |-> <<>>]

\* the processes that share the storage directory
Procs == {"p1", "p2"}

\* a process that is not inside save_chat_session
Idle == [pc |-> "idle", id |-> NoSession, now |-> 0, victims |-> <<>>]

----------------------------------------------------------------------------
(* Store operations *)

NoRet == [op |-> "none"]

\* the call before this one was a save of the same id and messages
Repeats(id, messages) ==
    ret.op = "save" /\ ret.id = id /\ ret.messages = messages

\* save_chat_session when open() and json.dump() succeed
save_chat_session(id, messages, title, order, failing) ==
    LET written == [files EXCEPT ![id] = session_data(id, messages, title, clock)]
    IN  /\ root
        /\ order \in GlobOrders(written)
        /\ IF ListRaises(written)
           THEN /\ files' = written
                /\ ret' = [op |-> "save", id |-> id, messages |-> messages,
                           title |-> title, raised |-> TRUE, evicted |-> <<>>,
                           repeat |-> Repeats(id, messages),
                           now |-> clock, error |-> "list"]
           ELSE LET victims == cleanup_victims(written, order, max_history)
                IN  /\ failing \subseteq Range(victims)
                    /\ files' = Unlink(written, Range(victims), failing)
                    /\ ret' = [op |-> "save", id |-> id, messages |-> messages,
                               title |-> title, raised |-> FALSE,
                               evicted |-> victims,
                               repeat |-> Repeats(id, messages),
                               now |-> clock, error |-> "none"]
        /\ UNCHANGED <<clock, max_history, root>>

\* what the file of id holds once the write has raised: nothing when the
\* directory is not there (open raises FileNotFoundError); else what it held
\* (open raised), or the part json.dump had written when it raised
WriteLeaves(fs, id) ==
    IF root THEN {fs[id], Malformed, Undecodable} ELSE {Absent}

\* the exception is caught and the eviction pass runs all the same
save_chat_session_swallows(id, messages, title, left) ==
    LET after == [files EXCEPT ![id] = left]
    IN  /\ left \in WriteLeaves(files, id)
        /\ \E order \in GlobOrders(after) :
              /\ files' = Unlink(after,
                                 Range(Ids(Slice(get_chat_history(after, order),
                                                 max_history))), {})
              /\ ret' = [op |-> "save", id |-> id, messages |-> messages,
                         title |-> title, raised |-> FALSE,
                         evicted |-> Ids(Slice(get_chat_history(after, order),
                                               max_history)),
                         repeat |-> Repeats(id, messages),
                         now |-> clock, error |-> "write"]
        /\ UNCHANGED <<clock, max_history, root>>

\* save_chat_session when open() or json.dump() raises: the exception leaves
\* the with statement and the function, _cleanup_old_sessions is not reached
save_chat_session_raises(id, messages, title, left) ==
    /\ left \in WriteLeaves(files, id)
    /\ files' = [files EXCEPT ![id] = left]
    /\ ret' = [op |-> "save", id |-> id, messages |-> messages,
               title |-> title, raised |-> TRUE, evicted |-> <<>>,
               repeat |-> Repeats(id, messages),
               now |-> clock,
               error |-> IF root THEN "write" ELSE "no_directory"]
    /\ UNCHANGED <<clock, max_history, root>>

\* ChatHistoryManager(): mkdir(exist_ok=True), then MAX_CHAT_HISTORY is read
ChatHistoryManager(n) ==
    /\ root' = TRUE
    /\ max_history' = n
    /\ ret' = NoRet
    /\ UNCHANGED <<files, clock>>

Load(id) ==
    /\ ret' = [op |-> "load", id |-> id, value |-> load_chat_session(files, id)]
    /\ UNCHANGED <<files, clock, max_history, root>>

List ==
    /\ \E order \in GlobOrders(files) :
          ret' = IF ListRaises(files)
                 THEN [op |-> "list", raised |-> TRUE, value |-> <<>>]
                 ELSE [op |-> "list", raised |-> FALSE,
                       value |-> get_chat_history(files, order)]
    /\ UNCHANGED <<files, clock, max_history, root>>

\* True is returned without looking whether the file exists
delete_chat_session_unchecked(id, unlink_fails) ==
    /\ unlink_fails => Exists(files, id)
    /\ files' = IF ~unlink_fails THEN [files EXCEPT ![id] = Absent] ELSE files
    /\ ret' = [op |-> "delete", id |-> id, value |-> ~unlink_fails,
               existed |-> Exists(files, id)]
    /\ UNCHANGED <<clock, max_history, root>>

delete_chat_session(id, unlink_fails) ==
    /\ unlink_fails => Exists(files, id)
    /\ files' = IF Exists(files, id) /\ ~unlink_fails
                THEN [files EXCEPT ![id] = Absent]
                ELSE files
    /\ ret' = [op |-> "delete", id |-> id,
               value |-> Exists(files, id) /\ ~unlink_fails,
               existed |-> Exists(files, id)]
    /\ UNCHANGED <<clock, max_history, root>>

\* time passes
Tick ==
    /\ clock < MaxClock
    /\ clock' = clock + 1
    /\ UNCHANGED <<files, max_history, root, ret>>

----------------------------------------------------------------------------
(* Inputs of the store operations *)

Hi == <<"h", "i">>
Welcome == <<"w">>
Reply == <<"r">>

MessageLists ==
    {<<AssistantMessage(Welcome), UserMessage(Hi), AssistantMessage(Reply)>>,
     <<AssistantMessage(Welcome)>>}

Titles == {NoTitle}

\* the glob of the eviction pass sees the files there were and the one written
Save ==
    /\ \E id \in SessionIds, m \in MessageLists, t \in Titles :
         \E order \in GlobOrders([files EXCEPT ![id] = Malformed]) :
            save_chat_session(id, m, t, order, {})
    /\ UNCHANGED appVars

LoadAny == (\E id \in SessionIds : Load(id)) /\ UNCHANGED appVars

ListAll == List /\ UNCHANGED appVars

Delete == (\E id \in SessionIds : delete_chat_session(id, FALSE)) /\ UNCHANGED appVars

Advance == Tick /\ UNCHANGED appVars

\* the unlink of any victim of the eviction pass may fail
SaveEnv ==
    /\ \E id \in EnvIds, m \in MessageLists, t \in Titles :
         \E order \in GlobOrders([files EXCEPT ![id] = Malformed]) :
            \E failing \in SUBSET EnvIds :
               save_chat_session(id, m, t, order, failing)
    /\ UNCHANGED appVars

\* the unlink raises OSError although the file exists
DeleteFails ==
    (\E id \in EnvIds : delete_chat_session(id, TRUE)) /\ UNCHANGED appVars

\* a write that stopped part-way leaves text json.load rejects, or bytes that
\* end inside a multi-byte character
InterruptedWrite ==
    /\ \E id \in EnvIds, f \in {Malformed, Undecodable} :
          files' = [files EXCEPT ![id] = f]
    /\ ret' = NoRet
    /\ UNCHANGED <<clock, max_history, root>>
    /\ UNCHANGED appVars

\* some other "*.json" file is put into the storage directory
ForeignFile ==
    /\ \E id \in EnvIds : files' = [files EXCEPT ![id] = NoKeys]
    /\ ret' = NoRet
    /\ UNCHANGED <<clock, max_history, root>>
    /\ UNCHANGED appVars

Init ==
    /\ files = [i \in SessionIds |-> Absent]
    /\ clock = 0
    /\ max_history \in 0..MaxHistoryBound
    /\ ret = NoRet
    /\ enabled = TRUE
    /\ conns = [c \in Conns |-> Closed]
    /\ issued = {}
    /\ root = TRUE
    /\ savers = [p \in Procs |-> Idle]

Next == Save \/ LoadAny \/ ListAll \/ Delete \/ Advance

Spec == Init /\ [][Next]_vars

\* the store on a file system that fails and holds files it did not write
LoadEnv == (\E id \in EnvIds : Load(id)) /\ UNCHANGED appVars

DeleteEnv == (\E id \in EnvIds : delete_chat_session(id, FALSE)) /\ UNCHANGED appVars

NextEnv ==
    \/ SaveEnv \/ LoadEnv \/ ListAll \/ DeleteEnv \/ DeleteFails \/ Advance
    \/ InterruptedWrite \/ ForeignFile

SpecEnv == Init /\ [][NextEnv]_vars

----------------------------------------------------------------------------
(* The store across restarts of the process, on a file system whose writes *)
(* may fail and whose storage directory may be taken away                  *)

IoMessages == <<UserMessage(Hi)>>

SaveIO ==
    /\ \E id \in EnvIds :
         \E order \in GlobOrders([files EXCEPT ![id] = Malformed]) :
            save_chat_session(id, IoMessages, NoTitle, order, {})
    /\ UNCHANGED appVars

SaveRaises ==
    /\ \E id \in EnvIds :
         \E left \in WriteLeaves(files, id) :
            save_chat_session_raises(id, IoMessages, NoTitle, left)
    /\ UNCHANGED appVars

\* the storage directory is removed with everything in it
RemoveRoot ==
    /\ root
    /\ root' = FALSE
    /\ files' = [i \in SessionIds |-> Absent]
    /\ ret' = NoRet
    /\ UNCHANGED <<clock, max_history>>
    /\ UNCHANGED appVars

\* the process starts again: chat_history_manager = ChatHistoryManager()
Construct ==
    /\ \E n \in 0..MaxHistoryBound : ChatHistoryManager(n)
    /\ UNCHANGED appVars

NextIO == SaveIO \/ SaveRaises \/ RemoveRoot \/ Construct \/ Advance

SpecIO == Init /\ [][NextIO]_vars

----------------------------------------------------------------------------
(* Saves and deletes across restarts that change MAX_CHAT_HISTORY, on a    *)
(* file system that does not fail                                          *)

SaveKept ==
    /\ \E id \in SessionIds :
         \E order \in GlobOrders([files EXCEPT ![id] = Malformed]) :
            save_chat_session(id, IoMessages, NoTitle, order, {})
    /\ UNCHANGED appVars

NextRetention == SaveKept \/ Delete \/ Construct \/ Advance

SpecRetention == Init /\ [][NextRetention]_vars

----------------------------------------------------------------------------
(* Two processes inside save_chat_session at once.  A step is the write of *)
(* the file (lines 35-45, taken as one step), the listing of the eviction  *)
(* pass (lines 131-133) or one turn of its loop (lines 134-135).           *)

ConcMessages == <<UserMessage(Hi)>>

\* lines 35-45; no two calls in progress are for the same session_id
save_write(p, id) ==
    /\ savers[p].pc = "idle"
    /\ root
    /\ \A q \in Procs \ {p} : savers[q].id # id
    /\ files' = [files EXCEPT
                    ![id] = session_data(id, ConcMessages, NoTitle, clock)]
    /\ savers' = [savers EXCEPT
                     ![p] = [pc |-> "written", id |-> id, now |-> clock,
                             victims |-> <<>>]]
    /\ UNCHANGED <<clock, max_history, root, ret>>

\* lines 131-133: sessions = get_chat_history(), then sessions[max_history:]
save_list(p, order) ==
    /\ savers[p].pc = "written"
    /\ order \in GlobOrders(files)
    /\ ~ListRaises(files)
    /\ savers' = [savers EXCEPT
                     ![p].pc = "deleting",
                     ![p].victims = cleanup_victims(files, order, max_history)]
    /\ UNCHANGED <<files, clock, max_history, root, ret>>

\* lines 134-135, one turn: delete_chat_session of the next victim, which
\* unlinks the file if it is there and returns False if it is not
save_delete(p) ==
    /\ savers[p].pc = "deleting"
    /\ savers[p].victims # <<>>
    /\ files' = [files EXCEPT ![Head(savers[p].victims)] = Absent]
    /\ savers' = [savers EXCEPT ![p].victims = Tail(@)]
    /\ UNCHANGED <<clock, max_history, root, ret>>

\* the loop is over and save_chat_session returns
save_return(p) ==
    /\ savers[p].pc = "deleting"
    /\ savers[p].victims = <<>>
    /\ savers' = [savers EXCEPT ![p].pc = "done"]
    /\ UNCHANGED <<files, clock, max_history, root, ret>>

ConcWrite ==
    /\ \E p \in Procs, id \in SessionIds : save_write(p, id)
    /\ UNCHANGED <<enabled, conns, issued>>

ConcList ==
    /\ \E p \in Procs : \E order \in GlobOrders(files) : save_list(p, order)
    /\ UNCHANGED <<enabled, conns, issued>>

ConcDelete ==
    /\ \E p \in Procs : save_delete(p)
    /\ UNCHANGED <<enabled, conns, issued>>

ConcReturn ==
    /\ \E p \in Procs : save_return(p)
    /\ UNCHANGED <<enabled, conns, issued>>

ConcTick == Tick /\ UNCHANGED <<enabled, conns, issued, savers>>

\* the store holds nothing, or one session saved at reading 0
InitConc ==
    /\ files \in {[i \in SessionIds |-> Absent],
                  [i \in SessionIds |->
                      IF i = "s1"
                      THEN session_data("s1", ConcMessages, NoTitle, 0)
                      ELSE Absent]}
    /\ clock = 0
    /\ max_history \in 0..MaxHistoryBound
    /\ ret = NoRet
    /\ enabled = TRUE
    /\ conns = [c \in Conns |-> Closed]
    /\ issued = {}
    /\ root = TRUE
    /\ savers = [p \in Procs |-> Idle]

NextConc == ConcWrite \/ ConcList \/ ConcDelete \/ ConcReturn \/ ConcTick

SpecConc == InitConc /\ [][NextConc]_vars

----------------------------------------------------------------------------
(* Application event handlers *)

IdOrder == <<"s1", "s2", "s3">>

\* str(uuid.uuid4()): an id never handed out before.  Ids are told apart by
\* equality alone, so the first one not yet handed out stands for any.
uuid4 ==
    IdOrder[CHOOSE i \in DOMAIN IdOrder :
               /\ IdOrder[i] \notin issued
               /\ \A j \in 1..(i - 1) : IdOrder[j] \in issued]

\* on_chat_start; engine_ok is whether index.as_query_engine returned
factory(c, engine_ok) ==
    /\ ~conns[c].open
    /\ issued # SessionIds
    /\ IF engine_ok
       THEN /\ conns' = [conns EXCEPT ![c] =
                   [open |-> TRUE, query_engine |-> TRUE, session_id |-> uuid4,
                    messages |-> IF enabled
                                 THEN <<AssistantMessage(Welcome)>>
                                 ELSE <<>>,
                    pc |-> "idle",
                    exchanged |-> IF enabled
                                  THEN <<AssistantMessage(Welcome)>>
                                  ELSE <<>>]]
            /\ issued' = issued \cup {uuid4}
       ELSE /\ conns' = [conns EXCEPT ![c] = [Closed EXCEPT !.open = TRUE]]
            /\ issued' = issued
    /\ UNCHANGED <<enabled, savers, files, clock, max_history, root, ret>>

\* on_message up to the await of the query
main_begin(c) ==
    /\ conns[c].open
    /\ conns[c].pc = "idle"
    /\ Len(conns[c].exchanged) + 2 <= MaxMessages
    /\ IF ~conns[c].query_engine
       THEN conns' = conns
       ELSE conns' = [conns EXCEPT
                ![c].messages = IF enabled
                                THEN Append(@, UserMessage(Hi))
                                ELSE @,
                ![c].exchanged = IF enabled
                                 THEN Append(@, UserMessage(Hi))
                                 ELSE @,
                ![c].pc = "querying"]
    /\ UNCHANGED <<enabled, savers, issued, files, clock, max_history, root, ret>>

MainOutcomes == {"answered", "query_error", "stream_fallback"}

\* on_message from the query's return: the query raised ("query_error"),
\* streaming raised and response_txt was sent instead ("stream_fallback"),
\* or the response message was sent at the end ("answered")
main_end(c, outcome) ==
    /\ conns[c].open
    /\ conns[c].pc = "querying"
    /\ outcome \in MainOutcomes
    /\ conns' = [conns EXCEPT
             ![c].messages = IF enabled /\ outcome = "answered"
                             THEN Append(@, AssistantMessage(Reply))
                             ELSE @,
             ![c].exchanged = IF enabled
                                 /\ outcome \in {"answered", "stream_fallback"}
                              THEN Append(@, AssistantMessage(Reply))
                              ELSE @,
             ![c].pc = "idle"]
    /\ UNCHANGED <<enabled, savers, issued, files, clock, max_history, root, ret>>

\* every session with messages is saved, user messages or not
SavesOnEnd_any(session) ==
    /\ enabled
    /\ session.session_id # NoSession
    /\ session.messages # <<>>

\* whether on_chat_end calls save_chat_session
SavesOnEnd(session) ==
    /\ enabled
    /\ session.session_id # NoSession
    /\ session.messages # <<>>
    /\ user_messages(session.messages) # <<>>

on_chat_end(c, order) ==
    /\ conns[c].open
    /\ IF SavesOnEnd(conns[c])
       THEN /\ save_chat_session(conns[c].session_id, conns[c].messages,
                                 NoTitle, order, {})
       ELSE /\ order = <<>>
            /\ UNCHANGED <<files, clock, max_history, root, ret>>
    /\ conns' = [conns EXCEPT ![c] = Closed]
    /\ UNCHANGED <<enabled, savers, issued>>

load_chat(id) ==
    /\ Load(id)
    /\ UNCHANGED <<enabled, savers, conns, issued>>

delete_chat(id) ==
    /\ delete_chat_session(id, FALSE)
    /\ UNCHANGED <<enabled, savers, conns, issued>>

clear_all_history(order) ==
    /\ order \in GlobOrders(files)
    /\ files' = Unlink(files, Range(Ids(get_chat_history(files, order))), {})
    /\ ret' = [op |-> "list", raised |-> FALSE,
               value |-> get_chat_history(files, order)]
    /\ UNCHANGED <<clock, max_history, root, enabled, savers, conns, issued>>

\* the process starts again: the module-level code reads the environment
Restart ==
    /\ enabled' \in BOOLEAN
    /\ conns' = [c \in Conns |-> Closed]
    /\ ret' = NoRet
    /\ UNCHANGED <<files, clock, max_history, root, issued, savers>>

ChatStart == \E c \in Conns, ok \in BOOLEAN : factory(c, ok)

MessageBegin == \E c \in Conns : main_begin(c)

MessageEnd == \E c \in Conns, outcome \in MainOutcomes : main_end(c, outcome)

ChatEnd ==
    \E c \in Conns :
       IF SavesOnEnd(conns[c])
       THEN \E order \in GlobOrders([files EXCEPT ![conns[c].session_id] = Malformed]) :
               on_chat_end(c, order)
       ELSE on_chat_end(c, <<>>)

LoadChat == \E id \in SessionIds : load_chat(id)

DeleteChat == \E id \in SessionIds : delete_chat(id)

ClearAll == \E order \in GlobOrders(files) : clear_all_history(order)

AppTick == Tick /\ UNCHANGED <<enabled, savers, conns, issued>>

InitApp ==
    /\ files = [i \in SessionIds |-> Absent]
    /\ clock = 0
    /\ max_history \in 0..MaxHistoryBound
    /\ ret = NoRet
    /\ enabled \in BOOLEAN
    /\ conns = [c \in Conns |-> Closed]
    /\ issued = {}
    /\ root = TRUE
    /\ savers = [p \in Procs |-> Idle]

NextApp ==
    \/ ChatStart \/ MessageBegin \/ MessageEnd \/ ChatEnd
    \/ LoadChat \/ DeleteChat \/ ClearAll \/ Restart \/ AppTick

SpecApp == InitApp /\ [][NextApp]_vars

----------------------------------------------------------------------------
(* Title derivation: one save of every input into an empty store *)

Padded == <<" ", "h", "i", "\n">>
Blank == <<" ">>
Long == Rep("x", TitleLimit + 1)
Full == Rep("x", TitleLimit)
PaddedFull == <<" ">> \o Rep("x", TitleLimit) \o <<"\n">>

TitleContents == {<<>>, Hi, Padded, Blank, Full, Long, PaddedFull}

TitleMessages ==
    {UserMessage(c) : c \in TitleContents} \cup {AssistantMessage(Welcome)}

SeqsUpTo(S, n) == UNION {[1..k -> S] : k \in 0..n}

TitleMessageLists == SeqsUpTo(TitleMessages, MaxTitleMessages)

TitleTitles == {NoTitle, <<"T">>}

SaveTitled ==
    /\ ret = NoRet
    /\ \E m \in TitleMessageLists, t \in TitleTitles :
          save_chat_session("s1", m, t, <<"s1">>, {})
    /\ UNCHANGED appVars

InitTitle ==
    /\ files = [i \in SessionIds |-> Absent]
    /\ clock \in 0..MaxClock
    /\ max_history \in 0..MaxHistoryBound
    /\ ret = NoRet
    /\ enabled = TRUE
    /\ conns = [c \in Conns |-> Closed]
    /\ issued = {}
    /\ root = TRUE
    /\ savers = [p \in Procs |-> Idle]

NextTitle == SaveTitled

SpecTitle == InitTitle /\ [][NextTitle]_vars

----------------------------------------------------------------------------
(* Properties of the store *)

NotFound == [result |-> "not_found"]

\* C1: the state right after save(session_id, messages), messages holding a
\* user_message: load(session_id) returns a record with the same messages in
\* the same order and message_count = the number of user_message entries.
C1_RoundTrip ==
    (ret.op = "save" /\ CountUser(ret.messages) >= 1)
        => /\ load_chat_session(files, ret.id).result = "session"
           /\ load_chat_session(files, ret.id).data.messages = ret.messages
           /\ load_chat_session(files, ret.id).data.message_count
                 = CountUser(ret.messages)

IsOldest(fs, o) ==
    /\ o \in Present(fs)
    /\ \A j \in Present(fs) : fs[j].timestamp >= fs[o].timestamp

\* C2: a save of a new id into a store that holds exactly max_history
\* sessions leaves exactly max_history sessions: an oldest one of the prior
\* sessions is gone, every other prior session is unchanged and the session
\* just saved is there.
C2_RetentionStep ==
    [][\A id \in SessionIds, m \in MessageLists, t \in Titles :
         \A order \in GlobOrders([files EXCEPT ![id] = Malformed]) :
            (/\ ~Exists(files, id)
             /\ Cardinality(Present(files)) = max_history
             /\ save_chat_session(id, m, t, order, {}))
            => /\ Cardinality(Present(files')) = max_history
               /\ files'[id] = session_data(id, m, t, clock)
               /\ \E o \in Present(files) :
                     /\ IsOldest(files, o)
                     /\ ~Exists(files', o)
                     /\ \A j \in Present(files) \ {o} : files'[j] = files[j]]_vars

\* C3: delete(id) returns true exactly when a file for id existed and is gone
\* afterwards, and then load(id) is not-found; it returns false when there is
\* no file, and false with the store as it was when the removal fails.
C3_DeleteResult ==
    [][\A id \in SessionIds, fails \in BOOLEAN :
         delete_chat_session(id, fails)
            => /\ ret'.value <=> (Exists(files, id) /\ ~Exists(files', id))
               /\ ret'.value => load_chat_session(files', id) = NotFound
               /\ ~Exists(files, id) => ~ret'.value
               /\ (Exists(files, id) /\ fails)
                     => (~ret'.value /\ files' = files)]_vars

C3_Witness ==
    /\ ret.op = "delete"
    /\ ret.existed
    /\ ~ret.value
    /\ Exists(files, ret.id)

C5_OneRecordPerId ==
    /\ \A i \in Readable(files) : files[i].session_id = i
    /\ (ret.op = "save" /\ ret.repeat)
          => /\ files[ret.id].kind = "record"
             /\ files[ret.id].timestamp = ret.now

ChatPrefix == <<"C", "h", "a", "t", " ">>

IsFallbackTitle(title, now) == title = ChatPrefix \o Decimal(now)

Shortened(c) == IF Len(c) <= 50 THEN c ELSE SubSeq(c, 1, 47) \o <<".", ".", ".">>

\* C6 as stated: a save without a title stores the content of the first
\* user_message, whole when it has at most 50 characters and else its first 47
\* characters and "...", and "Chat <date time>" when there is no user_message.
C6_TitleOfFirstUserMessage ==
    (ret.op = "save" /\ ret.title = NoTitle /\ files[ret.id].kind = "record")
        => IF user_messages(ret.messages) # <<>>
           THEN files[ret.id].title = Shortened(user_messages(ret.messages)[1].content)
           ELSE IsFallbackTitle(files[ret.id].title, files[ret.id].timestamp)

HasText(m) == IsUser(m) /\ m.content # <<>>

\* C6 as amended: a save without a title stores the stripped content of the
\* first user_message whose content is not empty, whole when the stripped
\* text has at most 50 characters and else its first 47 characters and "...",
\* and "Chat <date time>" when no user_message has content.
C6_TitleOfStrippedContent ==
    (ret.op = "save" /\ ret.title = NoTitle /\ files[ret.id].kind = "record")
        => IF SelectSeq(ret.messages, HasText) # <<>>
           THEN files[ret.id].title
                  = Shortened(strip(SelectSeq(ret.messages, HasText)[1].content))
           ELSE IsFallbackTitle(files[ret.id].title, files[ret.id].timestamp)

\* an empty first user_message is passed over and the padded text of the
\* second one, 50 characters once stripped, is kept whole
C6_Witness ==
    /\ ret.op = "save"
    /\ ret.title = NoTitle
    /\ Len(ret.messages) = 2
    /\ ret.messages[1] = UserMessage(<<>>)
    /\ ret.messages[2] = UserMessage(PaddedFull)
    /\ files[ret.id].kind = "record"
    /\ files[ret.id].title = Full

\* C7: load of a file that does not hold valid structured data returns what
\* load of a missing file returns.
C7_LoadMalformed ==
    (ret.op = "load" /\ files[ret.id].kind \in {"malformed", "undecodable"})
        => ret.value = NotFound

\* C8: a listing never raises and holds the summaries of all readable
\* records, and no save raises in its eviction pass.
C8_ListSkipsUnreadable ==
    /\ ret.op = "list"
          => /\ ~ret.raised
             /\ Range(ret.value) = {Summary(files[i]) : i \in Readable(files)}
    /\ ret.op = "save" => ~ret.raised

\* C11: a save on a store whose storage directory is missing creates the
\* directory and writes the record without an error, so after every save the
\* directory exists and the save has not failed for want of it.
C11_MissingRootCreated ==
    ret.op = "save"
        => /\ root
           /\ ret.error # "no_directory"

\* C12: a save whose file write fails with an I/O error raises to its caller,
\* runs no eviction pass, and leaves the file of every other session as it
\* was.
C12_WriteFailurePropagates ==
    [][(ret'.op = "save" /\ ret'.error \in {"write", "no_directory"})
          => /\ ret'.raised
             /\ ret'.evicted = <<>>
             /\ \A j \in SessionIds \ {ret'.id} : files'[j] = files[j]]_vars

\* the write of a session has failed part-way in a store that holds more
\* sessions than max_history: an eviction pass would have deleted one
C12_Witness ==
    /\ ret.op = "save"
    /\ ret.error = "write"
    /\ files[ret.id].kind = "malformed"
    /\ Cardinality(Readable(files)) > max_history

\* the sessions of fs whose timestamp is later than t
Newer(fs, t) == {j \in Readable(fs) : fs[j].timestamp > t}

\* C13: two saves of different ids, their steps interleaved, with
\* max_history >= 1 and written at two different clock readings later than
\* that of any session there was: once both have returned the store holds at
\* most max_history sessions, and the record either save wrote is there as
\* written unless max_history later sessions are.
C13_ConcurrentSavesSafe ==
    (/\ \A p \in Procs : savers[p].pc = "done"
     /\ max_history >= 1
     /\ savers["p1"].now # savers["p2"].now
     /\ \A p \in Procs : savers[p].now > 0)
        => /\ Cardinality(Present(files)) <= max_history
           /\ \A p \in Procs :
                 \/ files[savers[p].id]
                       = session_data(savers[p].id, ConcMessages, NoTitle,
                                      savers[p].now)
                 \/ Cardinality(Newer(files, savers[p].now)) >= max_history

\* C14: whenever a turn of the eviction loop removes a file, while another
\* save is under way or not, at least max_history other sessions of the store
\* are as recent as the one removed: it ranks beyond position max_history in
\* a newest-first order of the store at that moment.
C14_EvictsBeyondCutoff ==
    [][\A p \in Procs :
          (save_delete(p) /\ files[Head(savers[p].victims)].kind = "record")
             => Cardinality({j \in Readable(files) \ {Head(savers[p].victims)} :
                               files[j].timestamp
                                  >= files[Head(savers[p].victims)].timestamp})
                   >= max_history]_vars

Min(a, b) == IF a <= b THEN a ELSE b

C17_EvictsOldestFirst ==
    [][(ret'.op = "save" /\ ~ret'.raised /\ clock' = clock)
          => LET started == [files EXCEPT
                               ![ret'.id] = session_data(ret'.id, ret'.messages,
                                                         ret'.title, clock)]
             IN  \A i, j \in DOMAIN ret'.evicted :
                    i < j => started[ret'.evicted[i]].timestamp
                                <= started[ret'.evicted[j]].timestamp]_vars

\* C18: with max_history >= 1, whatever the store held, a save does not
\* evict the session it has written: a load of that id right after the save
\* returns the record just written.
C18_SaveKeepsOwnRecord ==
    (ret.op = "save" /\ ~ret.raised /\ max_history >= 1)
        => /\ ret.id \notin Range(ret.evicted)
           /\ load_chat_session(files, ret.id)
                 = [result |-> "session",
                    data |-> session_data(ret.id, ret.messages, ret.title,
                                          ret.now)]

----------------------------------------------------------------------------
(* Properties of the application *)

\* C9: on_chat_end saves only a session with a user_message, so every record
\* the application has persisted counts at least one user message.
C9_PersistedHasUserMessage ==
    /\ ret.op = "save" => user_messages(ret.messages) # <<>>
    /\ \A i \in Readable(files) :
          /\ files[i].message_count >= 1
          /\ \E k \in DOMAIN files[i].messages :
                files[i].messages[k].type = "user_message"

\* a chat with one answered message has ended and its record is in the store
C9_Witness ==
    /\ ret.op = "save"
    /\ ~conns["c1"].open
    /\ files[ret.id].kind = "record"
    /\ files[ret.id].message_count = 1
    /\ Len(files[ret.id].messages) = 3

\* C16: while a chat that on_chat_start has set up is open with the history
\* enabled, its message list is what has passed on the connection, one
\* user_message for every message that came in and one assistant_message for
\* every assistant response sent, in the order they occurred; and the list
\* on_chat_end passes to save is that.
C16_HistoryComplete ==
    [][\A c \in Conns :
          /\ (enabled' /\ conns'[c].open /\ conns'[c].query_engine)
                => conns'[c].messages = conns'[c].exchanged
          /\ (conns[c].open /\ ~conns'[c].open /\ ret'.op = "save")
                => ret'.messages = conns[c].exchanged]_vars

\* C10: with the chat history flag disabled no handler calls save, list or
\* delete, and the files of the store stay as they are.
C10_DisabledLeavesStoreAlone ==
    [][~enabled
         => /\ files' = files
            /\ ret' # ret => ret'.op \notin {"save", "list", "delete"}]_vars

====
